---- MODULE Spec2Model ----
(***************************************************************************)
(* hellsprite: extraction of the sprite and face pictures of a WAD archive *)
(* into indexed PNG files (src/src/main.rs).                               *)
(*                                                                         *)
(* The archive is a sequence of bytes; every structure is parsed from it   *)
(* the way the program parses it (little endian integers, NUL terminated   *)
(* names).  A cursor position p is the number of bytes before the cursor,  *)
(* so the byte under the cursor is wad[p + 1].                             *)
(***************************************************************************)
EXTENDS Integers, Sequences, FiniteSets, TLC

VARIABLES
    wad,          \* the mapped archive bytes (map_wad)
    upsample,     \* args.perspective_correct
    trace,        \* max_level() == LevelFilter::Trace
    wrapping,     \* the build wraps on integer overflow (no overflow checks)
    pc,           \* position of go / save_sprite
    result,       \* how the run ended, "Running" while it has not
    info,         \* Wadinfo
    dir,          \* Vec<Filelump>
    palette,      \* the palette slice &wad[start..end]
    used_colors,  \* [bool; 256], as the set of the indexes that are true
    stage,        \* which loop of go is running: "sprites" or "faces"
    iter,         \* state of the lazy iterator of that loop
    cur,          \* index in dir of the lump being converted (0: none)
    header,       \* PatchHeader of the lump being converted
    pixels,       \* the pixel buffer of the lump being converted
    x,            \* column being decoded
    pos,          \* cursor position of save_sprite
    written,      \* <<index, column>> of every pixel write of this decode
    lastPost,     \* the last loop iteration of the post loop
    converted,    \* indexes in dir of the lumps save_sprite returned Ok for
    pngs          \* the PNG files written, in order

vars == <<wad, upsample, trace, wrapping, pc, result, info, dir, palette,
          used_colors, stage, iter, cur, header, pixels, x, pos, written,
          lastPost, converted, pngs>>

(***************************************************************************)
(* Program constants.                                                      *)
(***************************************************************************)
TRANSPARENT == 251

PaletteLen == 768

UpX == 5

UpY == 6

EOC == 255

(***************************************************************************)
(* Bounds of the model.                                                    *)
(***************************************************************************)
MaxLumps == 3

MaxPosts == 2

MaxHeight == 3

MinLen == 780

(***************************************************************************)
(* Bytes and little endian integers.                                       *)
(***************************************************************************)
Byte == 0..255

Zeros(n) == [i \in 1..n |-> 0]

Max(a, b) == IF a < b THEN b ELSE a

\* Read::read_exact of n bytes at position p succeeds
CanRead(w, p, n) == p + n <= Len(w)

ByteAt(w, p) == w[p + 1]

U16At(w, p) == w[p + 1] + 256 * w[p + 2]

U32At(w, p) == w[p + 1] + 256 * w[p + 2] + 65536 * w[p + 3] + 16777216 * w[p + 4]

Bytes(w, p, n) == SubSeq(w, p + 1, p + n)

RECURSIVE NulTerm(_)
\* d.iter().take_while(|b| **b != 0).count()
NulTerm(d) ==
    IF d = <<>> \/ Head(d) = 0 THEN 0 ELSE 1 + NulTerm(Tail(d))

IsCont(b) == b >= 128 /\ b <= 191

RECURSIVE Utf8Valid(_)
\* std::str::from_utf8 accepts the bytes
Utf8Valid(s) ==
    IF s = <<>> THEN TRUE
    ELSE LET b == s[1]
             n == Len(s)
         IN  IF b < 128 THEN Utf8Valid(Tail(s))
             ELSE IF b >= 194 /\ b <= 223
             THEN n >= 2 /\ IsCont(s[2]) /\ Utf8Valid(SubSeq(s, 3, n))
             ELSE IF b >= 224 /\ b <= 239
             THEN /\ n >= 3
                  /\ IsCont(s[2]) /\ IsCont(s[3])
                  /\ (b = 224 => s[2] >= 160)
                  /\ (b = 237 => s[2] <= 159)
                  /\ Utf8Valid(SubSeq(s, 4, n))
             ELSE IF b >= 240 /\ b <= 244
             THEN /\ n >= 4
                  /\ IsCont(s[2]) /\ IsCont(s[3]) /\ IsCont(s[4])
                  /\ (b = 240 => s[2] >= 144)
                  /\ (b = 244 => s[2] <= 143)
                  /\ Utf8Valid(SubSeq(s, 5, n))
             ELSE FALSE

\* doomstr: the bytes before the first NUL; it panics unless they are UTF-8
doomstr(d) == SubSeq(d, 1, NulTerm(d))

doomstrPanics(d) == ~Utf8Valid(doomstr(d))

(***************************************************************************)
(* The names the program compares with.                                    *)
(***************************************************************************)
IWAD == <<73, 87, 65, 68>>

PWAD == <<80, 87, 65, 68>>

PLAYPAL == <<80, 76, 65, 89, 80, 65, 76>>

S_START == <<83, 95, 83, 84, 65, 82, 84>>

S_END == <<83, 95, 69, 78, 68>>

STF == <<83, 84, 70>>

\* str::starts_with
StartsWith(s, p) == Len(s) >= Len(p) /\ SubSeq(s, 1, Len(p)) = p

(***************************************************************************)
(* The structures read from the archive.                                   *)
(***************************************************************************)
\* Wadinfo, read at the start of the archive (12 bytes)
WadinfoAt(w) ==
    [magic |-> Bytes(w, 0, 4), numlumps |-> U32At(w, 4), infotableofs |-> U32At(w, 8)]

\* Filelump, one directory record (16 bytes) at position p
FilelumpAt(w, p) ==
    [filepos |-> U32At(w, p), size |-> U32At(w, p + 4), namebuf |-> Bytes(w, p + 8, 8)]

\* Filelump::name
name(l) == doomstr(l.namebuf)

namePanics(l) == doomstrPanics(l.namebuf)

\* read_directory: "panic" when the slice start is out of range, "error" when
\* a record runs past the end, else the records (the allocation of
\* Vec::with_capacity is taken to succeed)
read_directory(w, wi) ==
    IF wi.infotableofs > Len(w) THEN [kind |-> "panic", lumps |-> <<>>]
    ELSE IF ~CanRead(w, wi.infotableofs, 16 * wi.numlumps)
    THEN [kind |-> "error", lumps |-> <<>>]
    ELSE [kind |-> "ok",
          lumps |-> [i \in 1..wi.numlumps |-> FilelumpAt(w, wi.infotableofs + 16 * (i - 1))]]

\* read_palette: the slice &wad[start..end]; slicing panics when end > len
read_palette(w, lump) ==
    LET start == lump.filepos
        end == start + PaletteLen
    IN  IF end > Len(w) THEN [kind |-> "panic", start |-> start, end |-> end]
        ELSE [kind |-> "ok", start |-> start, end |-> end]

RECURSIVE FindByName(_, _, _)
\* dir.iter().find(|l| l.name() == n), from element i on
FindByName(d, n, i) ==
    IF i > Len(d) THEN [kind |-> "none", idx |-> 0]
    ELSE IF namePanics(d[i]) THEN [kind |-> "panic", idx |-> i]
    ELSE IF name(d[i]) = n THEN [kind |-> "found", idx |-> i]
    ELSE FindByName(d, n, i + 1)

\* PatchHeader at position p: 8 bytes, then width column offsets
PatchHeaderOk(w, p) == CanRead(w, p, 8) /\ CanRead(w, p + 8, 4 * U16At(w, p))

PatchHeaderAt(w, p) ==
    [width |-> U16At(w, p), height |-> U16At(w, p + 2),
     columnofs |-> [i \in 1..U16At(w, p) |-> U32At(w, p + 8 + 4 * (i - 1))]]

(***************************************************************************)
(* The lazy iterators of go.                                               *)
(***************************************************************************)
\* dir.iter().skip_while(name != S_START).skip(1).take_while(name != S_END):
\* next is the index of the next element of dir.iter(), started tells that
\* skip_while and skip have been passed
SpritesIter == [next |-> 1, started |-> FALSE]

TakeWhileNotEnd(d, i) ==
    IF i > Len(d) THEN [kind |-> "end", idx |-> 0, next |-> i]
    ELSE IF namePanics(d[i]) THEN [kind |-> "panic", idx |-> i, next |-> i]
    ELSE IF name(d[i]) = S_END THEN [kind |-> "end", idx |-> 0, next |-> i + 1]
    ELSE [kind |-> "item", idx |-> i, next |-> i + 1]

\* the iterator without its skip(1)
SpritesNextNoSkip(d, it) ==
    IF it.started THEN TakeWhileNotEnd(d, it.next)
    ELSE LET s == FindByName(d, S_START, it.next)
         IN  IF s.kind = "panic" THEN [kind |-> "panic", idx |-> s.idx, next |-> s.idx]
             ELSE IF s.kind = "none" THEN [kind |-> "end", idx |-> 0, next |-> Len(d) + 1]
             ELSE TakeWhileNotEnd(d, s.idx)

SpritesNext(d, it) ==
    IF it.started THEN TakeWhileNotEnd(d, it.next)
    ELSE LET s == FindByName(d, S_START, it.next)
         IN  IF s.kind = "panic" THEN [kind |-> "panic", idx |-> s.idx, next |-> s.idx]
             ELSE IF s.kind = "none" THEN [kind |-> "end", idx |-> 0, next |-> Len(d) + 1]
             ELSE TakeWhileNotEnd(d, s.idx + 1)

RECURSIVE FacesNext(_, _)
\* dir.iter().filter(|l| l.name().starts_with("STF"))
FacesNext(d, i) ==
    IF i > Len(d) THEN [kind |-> "end", idx |-> 0, next |-> i]
    ELSE IF namePanics(d[i]) THEN [kind |-> "panic", idx |-> i, next |-> i]
    ELSE IF StartsWith(name(d[i]), STF) THEN [kind |-> "item", idx |-> i, next |-> i + 1]
    ELSE FacesNext(d, i + 1)

(***************************************************************************)
(* The post loop of save_sprite.                                           *)
(***************************************************************************)
\* post.topdelta + dy in u8: a build with overflow checks panics above 255,
\* a build without them wraps
U8AddOverflows(a, b) == a + b > 255

U8Add(a, b) == (a + b) % 256

\* the index of a column major buffer
PixelIndexColumnMajor(col, y, width) == y + col * width

\* x + y * width
PixelIndex(col, y, width) == col + y * width

RECURSIVE PixelLoop(_, _, _, _, _, _, _)
\* for dy in 0..post.length { .. } and the read of the padding byte after it:
\* p is the cursor, st the pixel buffer, the used colors and the writes so far
PixelLoop(w, p, hdr, col, post, dy, st) ==
    IF dy = post.length
    THEN IF CanRead(w, p, 1)
         THEN [st EXCEPT !.status = "ok", !.pos = p + 1]
         ELSE [st EXCEPT !.status = "ReadError", !.pos = p]
    ELSE IF ~CanRead(w, p, 1) THEN [st EXCEPT !.status = "ReadError", !.pos = p]
    ELSE LET px == ByteAt(w, p)
             st1 == [st EXCEPT !.used = @ \cup {px}]
             idx == PixelIndex(col, U8Add(post.topdelta, dy), hdr.width)
         IN  IF U8AddOverflows(post.topdelta, dy) /\ ~st.wrapping
             THEN [st1 EXCEPT !.status = "PanicOverflow", !.pos = p + 1]
             ELSE IF idx >= Len(st.pixels)
             THEN [st1 EXCEPT !.status = "PanicIndex", !.pos = p + 1]
             ELSE PixelLoop(w, p + 1, hdr, col, post, dy + 1,
                            [st1 EXCEPT !.pixels[idx + 1] = px,
                                        !.written = @ \cup {<<idx, col>>}])

\* PostHeader at position p: topdelta and length are read (2 bytes)
PostHeaderOk(w, p) == CanRead(w, p, 2)

PostHeaderAt(w, p) == [topdelta |-> ByteAt(w, p), length |-> ByteAt(w, p + 1)]

\* a seek of one byte back in the place of the seek over the padding byte
PostHeaderEndBackwards(p) == p - 1

\* pad_after = 1: the padding byte after the two is skipped with a seek
PostHeaderEnd(p) == p + 3

\* one iteration of the loop over the posts of column col, the cursor at p
PostStep(w, p, hdr, col, st) ==
    IF ~PostHeaderOk(w, p) THEN [st EXCEPT !.status = "ReadError", !.pos = p]
    ELSE LET post == PostHeaderAt(w, p)
         IN  IF post.topdelta = EOC
             THEN [st EXCEPT !.status = "eoc", !.pos = PostHeaderEnd(p)]
             ELSE PixelLoop(w, PostHeaderEnd(p), hdr, col, post, 0, st)

RECURSIVE ColumnLoop(_, _, _, _, _)
\* loop { .. } over the posts of column col, from position p
ColumnLoop(w, p, hdr, col, st) ==
    LET r == PostStep(w, p, hdr, col, st)
    IN  IF r.status = "ok" THEN ColumnLoop(w, r.pos, hdr, col, r) ELSE r

RECURSIVE ColumnsFrom(_, _, _, _, _)
\* the loop over the columns, from column col on
ColumnsFrom(w, base, hdr, col, st) ==
    IF col = hdr.width THEN [st EXCEPT !.status = "ok"]
    ELSE LET r == ColumnLoop(w, base + hdr.columnofs[col + 1], hdr, col, st)
         IN  IF r.status = "eoc" THEN ColumnsFrom(w, base, hdr, col + 1, r) ELSE r

\* the decode of save_sprite as a whole, started with the used colors given
DecodeLump(w, lump, used, wr) ==
    IF ~PatchHeaderOk(w, lump.filepos)
    THEN [status |-> "ReadError", pos |-> lump.filepos, pixels |-> <<>>, used |-> used,
          written |-> {}, wrapping |-> wr]
    ELSE LET hdr == PatchHeaderAt(w, lump.filepos)
         IN  ColumnsFrom(w, lump.filepos, hdr, 0,
                         [status |-> "ok", pos |-> lump.filepos + 8 + 4 * hdr.width,
                          pixels |-> [i \in 1..(hdr.width * hdr.height) |-> TRANSPARENT],
                          used |-> used, written |-> {}, wrapping |-> wr])

(***************************************************************************)
(* The upscale of save_sprite.                                             *)
(***************************************************************************)
\* the destination index with the width of the source as the row length
UpDstSourceStride(sx, sy, dx, dy, srcwidth) ==
    LET dstx == sx * UpX + dx
        dsty == sy * UpY + dy
    IN  dstx + dsty * srcwidth

\* dstx + dsty * dstwidth for source pixel (sx, sy) and offsets (dx, dy)
UpDst(sx, sy, dx, dy, srcwidth) ==
    LET dstx == sx * UpX + dx
        dsty == sy * UpY + dy
    IN  dstx + dsty * (srcwidth * UpX)

\* the iterations (y, x, dy, dx) of the four loops that assign destination d
UpWriters(d, srcwidth, srcheight) ==
    {it \in (0..(srcheight - 1)) \X (0..(srcwidth - 1)) \X (0..(UpY - 1)) \X (0..(UpX - 1)) :
        UpDst(it[2], it[1], it[4], it[3], srcwidth) = d}

\* the loops run y, x, dy, dx in lexicographic order: the last assignment stays
LastWriter(ws) ==
    CHOOSE a \in ws : \A b \in ws :
        \/ a = b
        \/ \E k \in 1..4 : b[k] < a[k] /\ \A j \in 1..(k - 1) : b[j] = a[j]

\* embiggened: vec![0; width * height], then the four loops
Embiggen(px, srcwidth, srcheight) ==
    [i \in 1..(srcwidth * UpX * srcheight * UpY) |->
        LET ws == UpWriters(i - 1, srcwidth, srcheight)
        IN  IF ws = {} THEN 0
            ELSE LET a == LastWriter(ws) IN px[a[2] + a[1] * srcwidth + 1]]

\* what save_sprite hands to the PNG encoder
PngOf(lump, hdr, px, up) ==
    IF up
    THEN [name |-> name(lump), width |-> hdr.width * UpX, height |-> hdr.height * UpY,
          pixels |-> Embiggen(px, hdr.width, hdr.height)]
    ELSE [name |-> name(lump), width |-> hdr.width, height |-> hdr.height, pixels |-> px]

(***************************************************************************)
(* The archives the runs start from.  They are laid out as the structures  *)
(* above are read: Wadinfo, the directory at offset 12, zero bytes up to   *)
(* MinLen, then the lumps' data.                                           *)
(***************************************************************************)
LE16(n) == <<n % 256, (n \div 256) % 256>>

LE32(n) == <<n % 256, (n \div 256) % 256, (n \div 65536) % 256, (n \div 16777216) % 256>>

Name8(s) == s \o Zeros(8 - Len(s))

RECURSIVE Flatten(_)
Flatten(ss) == IF ss = <<>> THEN <<>> ELSE Head(ss) \o Flatten(Tail(ss))

RECURSIVE SeqsUpTo(_, _)
\* the sequences over S of length at most n
SeqsUpTo(S, n) ==
    IF n = 0 THEN {<<>>}
    ELSE LET shorter == SeqsUpTo(S, n - 1)
         IN  shorter \cup {Append(q, e) : q \in {r \in shorter : Len(r) = n - 1}, e \in S}

\* a directory entry to lay out: at is its file offset, or -1 for the offset
\* its data gets; size is its declared size, or -1 for the length of its data
Entry(n, data, at, size) == [name |-> Name8(n), data |-> data, at |-> at, size |-> size]

\* an archive with the given Wadinfo fields; cut bytes are dropped at the end
MkWad(magic, entries, cut) ==
    LET n == Len(entries)
        datalen == Len(Flatten([i \in 1..n |-> entries[i].data]))
        body == 12 + 16 * n
        pad == Max(0, MinLen - body - datalen)
        off(i) == body + pad + Len(Flatten([j \in 1..(i - 1) |-> entries[j].data]))
        rec(i) == LE32(IF entries[i].at < 0 THEN off(i) ELSE entries[i].at)
                    \o LE32(IF entries[i].size < 0 THEN Len(entries[i].data)
                            ELSE entries[i].size)
                    \o entries[i].name
        all == magic \o LE32(n) \o LE32(12) \o Flatten([i \in 1..n |-> rec(i)])
                 \o Zeros(pad) \o Flatten([i \in 1..n |-> entries[i].data])
    IN  SubSeq(all, 1, Len(all) - cut)

\* a post: topdelta, length, a padding byte, the pixels, a padding byte
Post(t, data) == <<t, Len(data), 0>> \o data \o <<0>>

\* a picture lump whose columns are the given post streams, one after another
Picture(width, height, cols) ==
    LET start(i) == 8 + 4 * width + Len(Flatten([j \in 1..(i - 1) |-> cols[j]]))
    IN  LE16(width) \o LE16(height) \o LE16(0) \o LE16(0)
          \o Flatten([i \in 1..width |-> LE32(start(IF i <= Len(cols) THEN i ELSE Len(cols)))])
          \o Flatten(cols)

\* a picture lump with the given column offsets and the bytes after them
RawPicture(width, height, ofs, bytes) ==
    LE16(width) \o LE16(height) \o LE16(0) \o LE16(0)
      \o Flatten([i \in 1..width |-> LE32(ofs[i])]) \o bytes

GoodPic(px) == Picture(1, 1, <<Post(0, <<px>>) \o <<EOC, 0>>>>)

PalEntry == Entry(PLAYPAL, <<>>, 0, PaletteLen)

Config(w, up, tr, wr) == [wad |-> w, upsample |-> up, trace |-> tr, wrapping |-> wr]

\* lump names: S_START, S_END, a face (STFA), a plain lump (TROO), a name
\* that is no text
NameAlphabet == {S_START, S_END, <<83, 84, 70, 65>>, <<84, 82, 79, 79>>, <<200>>}

\* more directories: bytes after the NUL, eight letter names, near misses of
\* the markers and of the prefix, a palette inside the sprite range
SpecialDirs ==
    { <<S_START, <<84, 82, 79, 79>>, <<83, 95, 69, 78, 68, 0, 90, 90>>, <<83, 84, 70>>>>,
      <<<<83, 95, 83, 84, 65, 82, 84, 88>>, <<84, 82, 79, 79>>, S_END>>,
      <<S_START, <<83, 84>>, <<115, 116, 102, 97>>, <<115, 95, 101, 110, 100>>, S_END>>,
      <<S_START, PLAYPAL, <<83, 84, 70, 195, 169>>, S_END, <<83, 84, 70, 70, 196>>>> }

DirConfigs ==
    { Config(MkWad(IWAD,
                   <<PalEntry>> \o [i \in 1..Len(q) |-> Entry(q[i], GoodPic(7), -1, -1)],
                   0),
             FALSE, tr, FALSE) :
        q \in SeqsUpTo(NameAlphabet, MaxLumps) \cup SpecialDirs, tr \in BOOLEAN }

\* the Wadinfo cases: magics, a directory offset or a lump count past the
\* end, archives shorter than a Wadinfo
Magics ==
    { IWAD, PWAD, <<88, 87, 65, 68>>, <<73, 87, 65, 0>>, <<0, 0, 0, 0>>, <<105, 119, 97, 100>>,
      <<255, 87, 65, 68>>, <<195, 169, 65, 68>>, <<73, 87, 65, 195>>, <<73, 0, 255, 255>> }

BaseEntries == <<PalEntry, Entry(S_START, <<>>, -1, -1), Entry(<<84, 82, 79, 79>>, GoodPic(7), -1, -1),
                 Entry(S_END, <<>>, -1, -1)>>

BaseWad == MkWad(IWAD, BaseEntries, 0)

WadinfoConfigs ==
    { Config(MkWad(m, BaseEntries, 0), FALSE, FALSE, FALSE) : m \in Magics }
    \cup { Config(SubSeq(MkWad(m, BaseEntries, 0), 1, n), FALSE, FALSE, FALSE) :
             m \in {IWAD, <<88, 87, 65, 68>>}, n \in {3, 11, 12, 27, 28} }
    \cup { Config([BaseWad EXCEPT ![9] = o[1], ![10] = o[2]], FALSE, FALSE, FALSE) :
             o \in {<<0, 0>>, <<200, 2>>, <<12, 3>>, <<14, 3>>, <<0, 4>>} }
    \cup { Config([BaseWad EXCEPT ![5] = n], FALSE, FALSE, FALSE) : n \in {0, 1, 5, 48, 49} }

\* the palette cases: its offset, its declared size, the bytes behind it
PaletteConfigs ==
    { Config(MkWad(IWAD, <<Entry(PLAYPAL, <<>>, at, size)>> \o Tail(BaseEntries), cut),
             FALSE, FALSE, FALSE) :
        at \in {0, 11, 12, 14, 800}, size \in {0, 767, 768, 769}, cut \in {0, 1} }
    \cup { Config(MkWad(IWAD, Tail(BaseEntries) \o pal, 0), FALSE, FALSE, FALSE) :
             pal \in { <<>>, <<PalEntry>>, <<Entry(PLAYPAL, <<>>, 40, 0), PalEntry>>,
                       <<PalEntry, Entry(PLAYPAL, <<>>, 40, 768)>> } }

\* the pictures of a whole run: three lumps, each good, using the
\* transparent index, placed past the end, or without a column terminator
PicKinds == {"good", "sentinel", "beyond", "noterm"}

KindEntry(n, k) ==
    CASE k = "good" -> Entry(n, GoodPic(7), -1, -1)
      [] k = "sentinel" -> Entry(n, GoodPic(TRANSPARENT), -1, -1)
      [] k = "beyond" -> Entry(n, <<>>, 2000, 19)
      [] k = "noterm" -> Entry(n, Picture(1, 2, <<Post(1, <<TRANSPARENT>>)>>), -1, -1)

RunConfigs ==
    { Config(MkWad(PWAD,
                   <<PalEntry, Entry(S_START, <<>>, -1, -1), KindEntry(<<65>>, k[1]),
                     KindEntry(<<66>>, k[2]), Entry(S_END, <<>>, -1, -1),
                     KindEntry(<<83, 84, 70, 67>>, k[3])>>,
                   cut),
             up, FALSE, FALSE) :
        k \in PicKinds \X PicKinds \X PicKinds, cut \in {0, 2}, up \in BOOLEAN }

\* one picture, the last lump of the archive
PicWad(pic, cut) ==
    MkWad(IWAD,
          <<PalEntry, Entry(S_START, <<>>, -1, -1), Entry(<<84, 82, 79, 79>>, pic, -1, -1),
            Entry(S_END, <<>>, -1, -1)>>,
          cut)

PostChoices ==
    { Post(0, <<7>>), Post(1, <<8>>), Post(0, <<7, 9>>), Post(1, <<>>),
      Post(0, <<TRANSPARENT>>), Post(2, <<0>>) }

\* the ends of a column: a terminator and the byte after it, a terminator
\* alone, no terminator
Endings == {<<EOC, 0>>, <<EOC>>, <<>>}

\* pictures of one column: every stream of at most MaxPosts posts
ColumnConfigs ==
    { Config(PicWad(Picture(1, h, <<Flatten(q) \o e>>), 0), FALSE, FALSE, FALSE) :
        q \in SeqsUpTo(PostChoices, MaxPosts), e \in Endings, h \in 0..MaxHeight }

StreamChoices ==
    { <<EOC, 0>>, Post(0, <<0>>) \o <<EOC, 0>>, Post(1, <<8, 9>>) \o <<EOC, 0>>,
      Post(0, <<7>>) \o Post(0, <<5>>) \o <<EOC, 0>>, Post(0, <<7>>), <<EOC>> }

\* pictures of two columns, upscaled; columns that share one stream; column
\* offsets that point at the header, between two posts and past the end;
\* pictures of no column
GridConfigs ==
    { Config(PicWad(Picture(2, h, <<a, b>>), cut), TRUE, FALSE, FALSE) :
        a \in StreamChoices, b \in StreamChoices, h \in 0..MaxHeight, cut \in {0, 1} }
    \cup { Config(PicWad(Picture(w, h, <<a>>), 0), TRUE, FALSE, FALSE) :
             a \in StreamChoices, w \in {0, 2, 3}, h \in 0..MaxHeight }
    \cup { Config(PicWad(RawPicture(2, h, <<o, 16>>,
                                    Post(0, <<7>>) \o Post(1, <<8>>) \o <<EOC, 0>>), 0),
                  up, FALSE, FALSE) :
             o \in {0, 4, 17, 21, 26, 27, 2000}, h \in 0..MaxHeight, up \in BOOLEAN }

\* pictures taller than 255 rows with a post that reaches row 256, under
\* both kinds of build
TallConfigs ==
    { Config(PicWad(Picture(1, h, <<Post(254, d) \o <<EOC, 0>>>>), 0), FALSE, FALSE, wr) :
        h \in {255, 256, 257, 258}, d \in {<<1>>, <<1, 2>>, <<1, 2, 3>>},
        wr \in BOOLEAN }

Configs ==
    DirConfigs \cup WadinfoConfigs \cup PaletteConfigs \cup RunConfigs
      \cup ColumnConfigs \cup GridConfigs \cup TallConfigs

(***************************************************************************)
(* The run: main calls go, go calls save_sprite for every selected lump.   *)
(***************************************************************************)
NoInfo == [magic |-> <<>>, numlumps |-> 0, infotableofs |-> 0]

NoHeader == [width |-> 0, height |-> 0, columnofs |-> <<>>]

NoPalette == [start |-> 0, end |-> 0]

NoPost == [status |-> "none", col |-> 0, at |-> 0, end |-> 0]

\* the run ends with outcome r: an Err returned to main ("ReadError",
\* "BadMagic"), a panic ("Panic.."), or "Ok"
End(r) == pc' = "done" /\ result' = r

\* the failing lump is skipped and the loop goes on
PropagateSkip(r) == pc' = "next" /\ UNCHANGED result

\* save_sprite(..)?: the Err of save_sprite is returned by go, and main exits
Propagate(r) == End(r)

Running(at) == pc = at /\ result = "Running"

\* main and the first line of go: the arguments are parsed and the archive is
\* mapped; the build is one that panics on integer overflow or one that wraps
MapWad ==
    /\ Running("main")
    /\ \E c \in Configs :
         /\ wad' = c.wad
         /\ upsample' = c.upsample
         /\ trace' = c.trace
         /\ wrapping' = c.wrapping
    /\ pc' = "start"
    /\ UNCHANGED <<result, info, dir, palette, used_colors, stage, iter, cur, header,
                   pixels, x, pos, written, lastPost, converted, pngs>>

\* let info: Wadinfo = curse.read_le()?
ReadWadinfo ==
    /\ Running("start")
    /\ IF CanRead(wad, 0, 12)
       THEN info' = WadinfoAt(wad) /\ pc' = "magic" /\ UNCHANGED result
       ELSE End("ReadError") /\ UNCHANGED info
    /\ UNCHANGED <<wad, upsample, trace, wrapping, dir, palette, used_colors, stage,
                   iter, cur, header, pixels, x, pos, written, lastPost, converted, pngs>>

\* the outcome of the magic check of go
MagicCheck(magic) ==
    IF doomstrPanics(magic) THEN "PanicNonAscii"
    ELSE IF doomstr(magic) # IWAD /\ doomstr(magic) # PWAD THEN "BadMagic"
    ELSE "ok"

CheckMagic ==
    /\ Running("magic")
    /\ IF MagicCheck(info.magic) = "ok"
       THEN pc' = "directory" /\ UNCHANGED result
       ELSE End(MagicCheck(info.magic))
    /\ UNCHANGED <<wad, upsample, trace, wrapping, info, dir, palette, used_colors, stage,
                   iter, cur, header, pixels, x, pos, written, lastPost, converted, pngs>>

\* let dir = read_directory(&wad, &info)?, then the listing of the names
\* when the log level is Trace
ReadDirectory ==
    /\ Running("directory")
    /\ LET r == read_directory(wad, info)
       IN  IF r.kind = "panic" THEN End("PanicSlice") /\ UNCHANGED dir
           ELSE IF r.kind = "error" THEN End("ReadError") /\ UNCHANGED dir
           ELSE IF trace /\ \E i \in 1..Len(r.lumps) : namePanics(r.lumps[i])
           THEN End("PanicNonAscii") /\ dir' = r.lumps
           ELSE dir' = r.lumps /\ pc' = "palette" /\ UNCHANGED result
    /\ UNCHANGED <<wad, upsample, trace, wrapping, info, palette, used_colors, stage,
                   iter, cur, header, pixels, x, pos, written, lastPost, converted, pngs>>

\* the lookup of PLAYPAL and read_palette
LoadPalette ==
    /\ Running("palette")
    /\ LET f == FindByName(dir, PLAYPAL, 1)
       IN  IF f.kind = "panic" THEN End("PanicNonAscii") /\ UNCHANGED palette
           ELSE IF f.kind = "none" THEN End("PanicNoPalette") /\ UNCHANGED palette
           ELSE LET r == read_palette(wad, dir[f.idx])
                IN  IF r.kind = "panic" THEN End("PanicSlice") /\ UNCHANGED palette
                    ELSE /\ palette' = [start |-> r.start, end |-> r.end]
                         /\ pc' = "next"
                         /\ UNCHANGED result
    /\ UNCHANGED <<wad, upsample, trace, wrapping, info, dir, used_colors, stage,
                   iter, cur, header, pixels, x, pos, written, lastPost, converted, pngs>>

\* for s in sprites: the next element of the sprite iterator
NextSprite ==
    /\ Running("next") /\ stage = "sprites"
    /\ LET n == SpritesNext(dir, iter)
       IN  CASE n.kind = "panic" ->
                  End("PanicNonAscii") /\ UNCHANGED <<stage, iter, cur>>
             [] n.kind = "end" ->
                  /\ stage' = "faces" /\ iter' = [next |-> 1, started |-> TRUE]
                  /\ cur' = 0
                  /\ UNCHANGED <<pc, result>>
             [] n.kind = "item" ->
                  /\ iter' = [next |-> n.next, started |-> TRUE]
                  /\ cur' = n.idx /\ pc' = "header"
                  /\ UNCHANGED <<stage, result>>
    /\ UNCHANGED <<wad, upsample, trace, wrapping, info, dir, palette, used_colors,
                   header, pixels, x, pos, written, lastPost, converted, pngs>>

\* for f in faces: the next element of the face iterator
NextFace ==
    /\ Running("next") /\ stage = "faces"
    /\ LET n == FacesNext(dir, iter.next)
       IN  CASE n.kind = "panic" ->
                  End("PanicNonAscii") /\ UNCHANGED <<iter, cur>>
             [] n.kind = "end" ->
                  /\ pc' = "final" /\ cur' = 0
                  /\ UNCHANGED <<iter, result>>
             [] n.kind = "item" ->
                  /\ iter' = [next |-> n.next, started |-> TRUE]
                  /\ cur' = n.idx /\ pc' = "header"
                  /\ UNCHANGED result
    /\ UNCHANGED <<wad, upsample, trace, wrapping, info, dir, palette, used_colors, stage,
                   header, pixels, x, pos, written, lastPost, converted, pngs>>

\* save_sprite: the seek to the lump, the read of the PatchHeader and the
\* allocation of the pixel buffer
ReadPatchHeader ==
    /\ Running("header")
    /\ LET base == dir[cur].filepos
       IN  IF PatchHeaderOk(wad, base)
           THEN LET h == PatchHeaderAt(wad, base)
                IN  /\ header' = h
                    /\ pixels' = [i \in 1..(h.width * h.height) |-> TRANSPARENT]
                    /\ x' = 0
                    /\ pos' = base + 8 + 4 * h.width
                    /\ written' = {}
                    /\ lastPost' = NoPost
                    /\ pc' = "column"
                    /\ UNCHANGED result
           ELSE Propagate("ReadError")
                  /\ UNCHANGED <<header, pixels, x, pos, written, lastPost>>
    /\ UNCHANGED <<wad, upsample, trace, wrapping, info, dir, palette, used_colors, stage,
                   iter, cur, converted, pngs>>

\* for (x, col) in header.columnofs.iter().enumerate(): the seek to the column
SeekColumn ==
    /\ Running("column")
    /\ x < header.width
    /\ pos' = dir[cur].filepos + header.columnofs[x + 1]
    /\ pc' = "post"
    /\ UNCHANGED <<wad, upsample, trace, wrapping, result, info, dir, palette, used_colors,
                   stage, iter, cur, header, pixels, x, written, lastPost, converted, pngs>>

\* one iteration of the post loop of column x
DecodePost ==
    /\ Running("post")
    /\ LET r == PostStep(wad, pos, header, x,
                         [status |-> "ok", pos |-> pos, pixels |-> pixels,
                          used |-> used_colors, written |-> written,
                          wrapping |-> wrapping])
       IN  /\ pixels' = r.pixels
           /\ used_colors' = r.used
           /\ written' = r.written
           /\ pos' = r.pos
           /\ lastPost' = [status |-> r.status, col |-> x, at |-> pos, end |-> r.pos]
           /\ CASE r.status = "ok" -> UNCHANGED <<pc, result, x>>
                [] r.status = "eoc" -> pc' = "column" /\ x' = x + 1 /\ UNCHANGED result
                [] r.status = "ReadError" -> Propagate(r.status) /\ UNCHANGED x
                [] OTHER -> End(r.status) /\ UNCHANGED x
    /\ UNCHANGED <<wad, upsample, trace, wrapping, info, dir, palette, stage, iter, cur,
                   header, converted, pngs>>

\* the rest of save_sprite once every column is decoded: the upscale and
\* the PNG file (the file system and the PNG encoder are taken to succeed)
EmitPng ==
    /\ Running("column")
    /\ x = header.width
    /\ pngs' = Append(pngs, PngOf(dir[cur], header, pixels, upsample))
    /\ converted' = Append(converted, cur)
    /\ pc' = "next"
    /\ UNCHANGED <<wad, upsample, trace, wrapping, result, info, dir, palette, used_colors,
                   stage, iter, cur, header, pixels, x, pos, written, lastPost>>

\* the assertion with all in the place of any
TransparencyCheckAll(used) ==
    IF \A b \in (Byte \ used) : b = TRANSPARENT THEN "Ok" ELSE "PanicTransparency"

\* assert!(unused_color_indexes.iter().any(|b| *b == TRANSPARENT)), Ok(())
TransparencyCheck(used) ==
    IF TRANSPARENT \in (Byte \ used) THEN "Ok" ELSE "PanicTransparency"

FinalCheck ==
    /\ Running("final")
    /\ End(TransparencyCheck(used_colors))
    /\ UNCHANGED <<wad, upsample, trace, wrapping, info, dir, palette, used_colors, stage,
                   iter, cur, header, pixels, x, pos, written, lastPost, converted, pngs>>

Next ==
    \/ MapWad
    \/ ReadWadinfo
    \/ CheckMagic
    \/ ReadDirectory
    \/ LoadPalette
    \/ NextSprite
    \/ NextFace
    \/ ReadPatchHeader
    \/ SeekColumn
    \/ DecodePost
    \/ EmitPng
    \/ FinalCheck

Init ==
    /\ wad = <<>>
    /\ upsample = FALSE
    /\ trace = FALSE
    /\ wrapping = FALSE
    /\ pc = "main"
    /\ result = "Running"
    /\ info = NoInfo
    /\ dir = <<>>
    /\ palette = NoPalette
    /\ used_colors = {}
    /\ stage = "sprites"
    /\ iter = SpritesIter
    /\ cur = 0
    /\ header = NoHeader
    /\ pixels = <<>>
    /\ x = 0
    /\ pos = 0
    /\ written = {}
    /\ lastPost = NoPost
    /\ converted = <<>>
    /\ pngs = <<>>

Spec == Init /\ [][Next]_vars

\* the program is sequential and nothing suspends it: a post loop that can
\* run another iteration runs it
FairSpec == Spec /\ WF_vars(DecodePost)

(***************************************************************************)
(* Properties.                                                             *)
(***************************************************************************)
\* the decode of the current lump is complete: every column has ended
DecodeComplete == cur # 0 /\ result = "Running" /\ pc \in {"column", "next"} /\ x = header.width

WrittenIndexes == {wr[1] : wr \in written}

\* C1: the pixel buffer of a decoded picture has width * height entries,
\* every entry no post wrote holds the transparent index 251, and every
\* write of a post landed at x + y * width with x the column being decoded,
\* 0 <= x < width and 0 <= y < height.
C1_BufferInGrid ==
    DecodeComplete =>
        /\ Len(pixels) = header.width * header.height
        /\ \A i \in 1..Len(pixels) : (i - 1) \notin WrittenIndexes => pixels[i] = TRANSPARENT
        /\ \A wr \in written :
             /\ wr[2] \in 0..(header.width - 1)
             /\ \E y \in 0..(header.height - 1) : wr[1] = wr[2] + y * header.width

\* a two column picture is decoded with a write in the second column and
\* entries left unwritten
C1_Witness ==
    /\ DecodeComplete
    /\ header.width = 2 /\ header.height >= 2
    /\ \E wr \in written : wr[2] = 1
    /\ \E i \in 1..Len(pixels) : (i - 1) \notin WrittenIndexes

\* the post read by the last iteration of the post loop
LastPostHeader == PostHeaderAt(wad, lastPost.at)

\* C2: a post of column x with top-delta t and length n puts its dy-th pixel
\* byte at index x + (t + dy) * width, t + dy being the sum of the integers
\* (never reduced modulo 256, never an overflow), for every dy below n.
C2_TrueSum ==
    /\ lastPost.status # "PanicOverflow"
    /\ lastPost.status = "ok" =>
         \A dy \in 0..(LastPostHeader.length - 1) :
            LET idx == lastPost.col + (LastPostHeader.topdelta + dy) * header.width
            IN  /\ idx < Len(pixels)
                /\ pixels[idx + 1] = ByteAt(wad, PostHeaderEnd(lastPost.at) + dy)

\* the last iteration of the post loop read the first post of its column
FirstPostOfColumn ==
    /\ lastPost.status # "none"
    /\ lastPost.col < header.width
    /\ lastPost.at = dir[cur].filepos + header.columnofs[lastPost.col + 1]

\* C9: a column whose stream begins with a top-delta byte 255 that lies in
\* the archive, the last byte included, ends there without an error, no
\* pixel of it written.
C9_Terminator ==
    (/\ FirstPostOfColumn
     /\ CanRead(wad, lastPost.at, 1)
     /\ ByteAt(wad, lastPost.at) = EOC)
    => /\ lastPost.status = "eoc"
       /\ result = "Running"
       /\ \A wr \in written : wr[2] # lastPost.col

\* C10, as stated: the post loop of a column ends by reading a top-delta of
\* 255 or by a read past the end of the archive, and no other way.
C10_TwoEndings == lastPost.status \in {"none", "ok", "eoc", "ReadError"}

\* C10, amended: the post loop of a column ends by reading a top-delta of
\* 255, by a read past the end of the archive, or by the panic of a pixel
\* write (index out of range, overflow of topdelta + dy); every iteration
\* that continues the loop moves the cursor forward and an iteration begun
\* with fewer than two bytes left ends it; so every post loop that is
\* entered is left.
C10_Terminates ==
    /\ [](lastPost.status \in {"none", "ok", "eoc", "ReadError", "PanicIndex", "PanicOverflow"})
    /\ [](lastPost.status \in {"ok", "eoc"} => lastPost.end > lastPost.at)
    /\ [](lastPost.status # "none" /\ ~PostHeaderOk(wad, lastPost.at)
            => lastPost.status = "ReadError")
    /\ (pc = "post") ~> (pc # "post")

\* a post loop over a column without a terminator, with a post of length 0,
\* has run two iterations and ended at the end of the archive
C10_Witness ==
    /\ lastPost.status = "ReadError"
    /\ lastPost.at > dir[cur].filepos + header.columnofs[lastPost.col + 1] + 4
    /\ PostHeaderAt(wad, dir[cur].filepos + header.columnofs[lastPost.col + 1]).length = 0

(***************************************************************************)
(* The selection of the lumps.                                             *)
(***************************************************************************)
RECURSIVE Ascending(_)
\* the elements of a set of numbers in increasing order
Ascending(S) ==
    IF S = {} THEN <<>>
    ELSE LET m == CHOOSE m \in S : \A k \in S : m <= k
         IN  <<m>> \o Ascending(S \ {m})

IsPrefix(a, b) == Len(a) <= Len(b) /\ SubSeq(b, 1, Len(a)) = a

Named(n) == {i \in 1..Len(dir) : name(dir[i]) = n}

\* the first entry named S_START, 0 when there is none
FirstStart == IF Named(S_START) = {} THEN 0 ELSE Ascending(Named(S_START))[1]

EndsAfterStart == {j \in Named(S_END) : j > FirstStart}

\* the entries strictly between the first S_START and the next S_END
BetweenMarkers ==
    {i \in 1..Len(dir) :
        /\ FirstStart # 0 /\ FirstStart < i
        /\ EndsAfterStart # {} /\ \A j \in EndsAfterStart : i < j}

\* the entries after the first S_START, up to the next S_END if there is one
AfterStart ==
    {i \in 1..Len(dir) : FirstStart # 0 /\ FirstStart < i /\ \A j \in EndsAfterStart : i < j}

Faces == {i \in 1..Len(dir) : StartsWith(name(dir[i]), STF)}

Selected == Ascending(AfterStart) \o Ascending(Faces)

\* both loops of go have run to their end
LoopsDone == pc = "final" \/ result \in {"Ok", "PanicTransparency"}

\* C3, as stated: the lumps converted in a run are those strictly between
\* the first S_START and the next S_END, then those whose name starts with
\* STF, in directory order.
C3_BetweenMarkers ==
    LoopsDone => converted = Ascending(BetweenMarkers) \o Ascending(Faces)

\* C3, amended: the lumps converted in a run are those after the first
\* S_START up to the next S_END, or up to the end of the directory when no
\* S_END follows, then those whose name starts with STF, in directory order;
\* a run that ends early has converted a prefix of that sequence.
C3_Selection ==
    /\ IsPrefix(converted, Selected)
    /\ LoopsDone => converted = Selected

\* a run over a directory with S_START, S_END and a face has converted a
\* sprite and a face, the markers left out
C3_Witness ==
    /\ LoopsDone
    /\ FirstStart # 0 /\ EndsAfterStart # {}
    /\ Len(converted) >= 2
    /\ converted[1] \in AfterStart
    /\ converted[Len(converted)] \in Faces \ AfterStart

(***************************************************************************)
(* The transparency check.                                                 *)
(***************************************************************************)
\* the palette indexes read as pixel bytes by the conversion of lump i
UsedBy(i) == DecodeLump(wad, dir[i], {}, wrapping).used

\* index 251 was read as a pixel byte in a converted lump
SentinelRead == \E k \in 1..Len(converted) : TRANSPARENT \in UsedBy(converted[k])

\* C4, as stated: the run fails with the transparency failure if and only
\* if index 251 was read as a pixel byte in a converted lump, and only after
\* every selected lump has been converted.
C4_Iff ==
    result # "Running" =>
        /\ result = "PanicTransparency" <=> SentinelRead
        /\ result = "PanicTransparency" => converted = Selected

\* C4, amended: a run whose two loops run to their end (no conversion fails,
\* no name fails to decode) fails with the transparency failure if and only
\* if index 251 was read as a pixel byte in a converted lump, and succeeds
\* otherwise; the failure is raised only after every selected lump has been
\* converted; an entry of the used-color tracker, once true, stays true.
C4_AfterAllConverted ==
    /\ [](result \in {"Ok", "PanicTransparency"} =>
            /\ converted = Selected
            /\ result = "PanicTransparency" <=> SentinelRead)
    /\ [](pc = "final" => (TRANSPARENT \in used_colors <=> SentinelRead))
    /\ [][used_colors \subseteq used_colors']_vars

\* a run has converted three lumps, read 251 in the second of them only, and
\* failed the check
C4_Witness ==
    /\ result = "PanicTransparency"
    /\ Len(converted) = 3
    /\ TRANSPARENT \notin UsedBy(converted[1])
    /\ TRANSPARENT \in UsedBy(converted[2])
    /\ TRANSPARENT \notin UsedBy(converted[3])

(***************************************************************************)
(* The upscale.                                                            *)
(***************************************************************************)
\* save_sprite has just returned Ok for the current lump, upscaled
JustUpscaled == upsample /\ cur # 0 /\ pc = "next" /\ result = "Running"

LastPng == pngs[Len(pngs)]

\* C5: the upscaled picture has width * 5 by height * 6 pixels, destination
\* (5x + dx, 6y + dy) holds source pixel (x, y) for every dx below 5 and dy
\* below 6, and every destination is assigned by exactly one source pixel.
C5_Upscale ==
    JustUpscaled =>
        /\ LastPng.width = header.width * 5
        /\ LastPng.height = header.height * 6
        /\ Len(LastPng.pixels) = LastPng.width * LastPng.height
        /\ \A sx \in 0..(header.width - 1), sy \in 0..(header.height - 1),
              dx \in 0..4, dy \in 0..5 :
             LastPng.pixels[(5 * sx + dx) + (6 * sy + dy) * LastPng.width + 1]
               = pixels[sx + sy * header.width + 1]
        /\ \A d \in 0..(Len(LastPng.pixels) - 1) :
             Cardinality(UpWriters(d, header.width, header.height)) = 1

\* a 2 by 3 picture with a pixel of index 0 and transparent pixels has been
\* upscaled
C5_Witness ==
    /\ JustUpscaled
    /\ header.width = 2 /\ header.height = 3
    /\ \E i \in 1..Len(pixels) : pixels[i] = 0
    /\ \E i \in 1..Len(pixels) : pixels[i] = TRANSPARENT
    /\ \E i \in 1..Len(pixels) : pixels[i] \notin {0, TRANSPARENT}

(***************************************************************************)
(* The failures.                                                           *)
(***************************************************************************)
\* C6: an archive of at least 12 bytes whose magic is not IWAD or PWAD,
\* whatever its four bytes are, ends the run with the bad magic failure
\* before the directory is read, the palette looked up or a lump converted.
C6_BadMagic ==
    (/\ pc \notin {"main", "start", "magic"}
     /\ Len(wad) >= 12
     /\ Bytes(wad, 0, 4) \notin {IWAD, PWAD})
    => /\ result = "BadMagic"
       /\ dir = <<>> /\ palette = NoPalette /\ converted = <<>>

\* a read of the conversion of the current lump ran past the end
ReadFailed ==
    /\ cur # 0 /\ pc # "header"
    /\ \/ ~PatchHeaderOk(wad, dir[cur].filepos)
       \/ lastPost.status = "ReadError"

\* C7: when a read of the conversion of a selected lump runs past the end of
\* the archive the run ends with a failure: the failing lump gets no PNG, no
\* later lump is converted or written, the run does not succeed.
C7_ReadErrorAborts ==
    /\ [](ReadFailed =>
            /\ result = "ReadError" /\ pc = "done"
            /\ IsPrefix(Append(converted, cur), Selected)
            /\ Len(pngs) = Len(converted))
    /\ [][result = "ReadError" => UNCHANGED <<result, converted, pngs>>]_vars

\* the second of three selected lumps has failed on a read after the first
\* was converted
C7_Witness ==
    /\ ReadFailed
    /\ lastPost.status = "ReadError"
    /\ Len(converted) = 1 /\ Len(pngs) = 1
    /\ Len(Selected) = 3

\* the first lump named PLAYPAL
PaletteLump == dir[FindByName(dir, PLAYPAL, 1).idx]

\* C8: the palette is the 768 bytes at the offset of the first lump named
\* PLAYPAL, and it is not loaded when the declared size of the lump is below
\* 768 or fewer than 768 bytes remain at the offset.
C8_PaletteChecked ==
    palette # NoPalette =>
        /\ Bytes(wad, palette.start, palette.end - palette.start)
             = Bytes(wad, PaletteLump.filepos, 768)
        /\ PaletteLump.filepos + 768 <= Len(wad)
        /\ PaletteLump.size >= 768

====
